---- MODULE Spec2Model ----
(***************************************************************************)
(* A model of intervensie.py: a Streamlit form application that appends    *)
(* intervention-class records to a CSV table, filters them by a date       *)
(* window and by category, deletes them by ordinal together with their     *)
(* artifact files, mirrors the table to GitHub and renders a Word report.  *)
(*                                                                         *)
(* Every user interaction is one run of the script from top to bottom; a   *)
(* run that ends in st.rerun() is followed at once by a plain run.  Each   *)
(* action below is one such interaction, reruns included.                  *)
(***************************************************************************)
EXTENDS Integers, Sequences, FiniteSets, TLC

VARIABLES
    csv,          \* intervensie_database.csv: the sequence of data rows, each cell as text
    fs,           \* the artifact files under fotos/ and presensies/: path -> file
    cacheRaw,     \* st.cache_data store of load_raw
    cacheInterv,  \* st.cache_data store of load_intervention_data
    cacheFilter,  \* st.cache_data store of load_and_filter_data, keyed by its arguments
    now,          \* the wall clock: [ord |-> day ordinal, sec |-> second of the day]
    served,       \* the frames and the report the latest script run showed
    msgs,         \* the st.error / st.warning / st.success messages of the latest handler
    last,         \* the latest interaction: which handler ran, on what input, how it ended
    page,         \* st.session_state.intervention_page
    inflight      \* per session: the handler that has read the table and not yet rewritten it

vars == <<csv, fs, cacheRaw, cacheInterv, cacheFilter, now, served, msgs, last, page, inflight>>

----------------------------------------------------------------------------
(* Bounds of the model *)

MaxRows == 2          \* appends are explored while the table has fewer rows than this
MaxCount == 2         \* the largest Totaal Genooi entered in the form
MaxClock == 1         \* seconds the clock may advance
MaxNumeral == 20      \* numerals 0..MaxNumeral are the texts read_csv can infer as numbers
MaxSheetRows == 120   \* the largest attendance sheet (data rows) in the report model
MaxBack == 2          \* days around each window boundary in the filter model
MaxSessions == 2      \* browser sessions open at once
MaxPageRows == 11     \* rows of the table in the pagination model

(* Program constants *)

SHEET_MAX_ROWS == 50
NOTICE_FROM_ROWS == 50
ENTRIES_PER_PAGE == 10

CSV_FILE == "intervensie_database.csv"
FOTO_DIR == "fotos"
PRES_DIR == "presensies"
GRADE_OPTIONS == <<"8", "9", "10", "11", "12">>

COLUMNS == <<"Datum", "Graad", "Vak", "Tema", "Begintyd", "Eindtyd",
             "Totaal Genooi", "Totaal Opgedaag", "Opvoeder", "Foto",
             "Presensielys_Foto", "Presensielys_Dokument">>

Range(s) == {s[i] : i \in 1..Len(s)}

(* The column names as record fields *)
DATA_COLUMNS == {"Graad", "Vak", "Tema", "Begintyd", "Eindtyd", "TotaalGenooi",
                 "TotaalOpgedaag", "Opvoeder", "Foto", "Presensielys_Foto",
                 "Presensielys_Dokument"}

----------------------------------------------------------------------------
(* Text of numbers: str(int), "%02d", and the inverse that read_csv applies *)

Digits == <<"0", "1", "2", "3", "4", "5", "6", "7", "8", "9">>

RECURSIVE NumText(_)
NumText(n) ==
    IF n < 10 THEN Digits[n + 1]
    ELSE NumText(n \div 10) \o Digits[(n % 10) + 1]

Pad2(n) == IF n < 10 THEN "0" \o NumText(n) ELSE NumText(n)

Numerals == 0..MaxNumeral
IntTexts == {NumText(n) : n \in Numerals}
FloatTexts == {NumText(n) \o ".0" : n \in Numerals}

IsIntText(s) == s \in IntTexts
IsFloatText(s) == s \in FloatTexts
ParseNum(s) == CHOOSE n \in Numerals : NumText(n) = s \/ NumText(n) \o ".0" = s

----------------------------------------------------------------------------
(* Calendar: datetime.date as <<y, m, d>>, its ordinal, and timedelta arithmetic. *)
(* Ordinal 1 is 2023-01-01; the model stays inside 2023..2026.                    *)

IsLeap(y) == y % 4 = 0 /\ (y % 100 # 0 \/ y % 400 = 0)
YearLen(y) == IF IsLeap(y) THEN 366 ELSE 365
MonthLen(y, m) ==
    IF m = 2 THEN (IF IsLeap(y) THEN 29 ELSE 28)
    ELSE IF m \in {4, 6, 9, 11} THEN 30 ELSE 31

RECURSIVE DaysBeforeYear(_)
DaysBeforeYear(y) == IF y <= 2023 THEN 0 ELSE DaysBeforeYear(y - 1) + YearLen(y - 1)

RECURSIVE DaysBeforeMonth(_, _)
DaysBeforeMonth(y, m) == IF m <= 1 THEN 0 ELSE DaysBeforeMonth(y, m - 1) + MonthLen(y, m - 1)

ValidDate(y, m, d) == y \in 2023..2026 /\ m \in 1..12 /\ d \in 1..MonthLen(y, m)

ToOrdinal(y, m, d) == DaysBeforeYear(y) + DaysBeforeMonth(y, m) + d

RECURSIVE YearOf(_, _)
YearOf(n, y) == IF n <= YearLen(y) THEN <<y, n>> ELSE YearOf(n - YearLen(y), y + 1)

RECURSIVE MonthOf(_, _, _)
MonthOf(n, y, m) == IF n <= MonthLen(y, m) THEN <<m, n>> ELSE MonthOf(n - MonthLen(y, m), y, m + 1)

FromOrdinal(n) ==
    LET yn == YearOf(n, 2023)
        mn == MonthOf(yn[2], yn[1], 1)
    IN  [y |-> yn[1], m |-> mn[1], d |-> mn[2]]

(* The text datum.strftime("%Y-%m-%d") writes, kept as its three numbers; any  *)
(* other text of the Datum column is [raw |-> text].                          *)
DateText(date) == [y |-> date.y, m |-> date.m, d |-> date.d]
IsIsoText(c) == DOMAIN c = {"y", "m", "d"}

(* begintyd.strftime("%H:%M"), the time given in minutes after midnight *)
TimeText(t) == Pad2(t \div 60) \o ":" \o Pad2(t % 60)

(* datetime.now().strftime("%Y%m%d_%H%M%S") *)
StampText(clock) ==
    LET dt == FromOrdinal(clock.ord)
    IN  NumText(dt.y) \o Pad2(dt.m) \o Pad2(dt.d) \o "_"
        \o Pad2(clock.sec \div 3600) \o Pad2((clock.sec % 3600) \div 60) \o Pad2(clock.sec % 60)

(* pandas Timestamp: a day ordinal and a second of the day; NaT is its missing value *)
NaT == [k |-> "nat"]
Ts(o, s) == [k |-> "ts", ord |-> o, sec |-> s]
TsGe(a, b) ==
    /\ a.k = "ts"
    /\ b.k = "ts"
    /\ (a.ord > b.ord \/ (a.ord = b.ord /\ a.sec >= b.sec))

(* today - timedelta(days=n) *)
MinusDays(t, n) == Ts(t.ord - n, t.sec)

----------------------------------------------------------------------------
(* pandas values, read_csv and to_csv *)

NaN == [k |-> "nan"]
StrVal(s) == [k |-> "str", s |-> s]
IntVal(n) == [k |-> "int", n |-> n]
FltVal(n) == [k |-> "flt", n |-> n]

(* The texts read_csv takes for a missing value *)
NA_VALUES == {"", "#N/A", "#NA", "<NA>", "N/A", "NA", "NULL", "NaN", "None",
              "n/a", "nan", "null", "-NaN", "-nan"}

IsNA(s) == s \in NA_VALUES

(* The dtype read_csv infers for a column from all of its cells *)
ColKind(table, col) ==
    LET cells == {table[i][col] : i \in 1..Len(table)}
        given == {s \in cells : ~IsNA(s)}
    IN  IF given # {} /\ \A s \in given : IsIntText(s)
        THEN (IF given = cells THEN "int" ELSE "flt")
        ELSE IF \A s \in given : IsIntText(s) \/ IsFloatText(s)
        THEN "flt"
        ELSE "obj"

ReadCell(kind, s) ==
    IF IsNA(s) THEN NaN
    ELSE IF kind = "int" THEN IntVal(ParseNum(s))
    ELSE IF kind = "flt" THEN FltVal(ParseNum(s))
    ELSE StrVal(s)

(* The Datum column after read_csv: still text, a missing-value text read as NaN *)
ReadDatum(c) == IF ~IsIsoText(c) /\ IsNA(c.raw) THEN [raw |-> ""] ELSE c

(* One row of pd.read_csv(CSV_FILE), labelled idx, given the dtype of each column *)
ReadRow(row, idx, kind) ==
    [idx |-> idx,
     Datum |-> ReadDatum(row.Datum),
     Graad |-> ReadCell(kind.Graad, row.Graad),
     Vak |-> ReadCell(kind.Vak, row.Vak),
     Tema |-> ReadCell(kind.Tema, row.Tema),
     Begintyd |-> ReadCell(kind.Begintyd, row.Begintyd),
     Eindtyd |-> ReadCell(kind.Eindtyd, row.Eindtyd),
     TotaalGenooi |-> ReadCell(kind.TotaalGenooi, row.TotaalGenooi),
     TotaalOpgedaag |-> ReadCell(kind.TotaalOpgedaag, row.TotaalOpgedaag),
     Opvoeder |-> ReadCell(kind.Opvoeder, row.Opvoeder),
     Foto |-> ReadCell(kind.Foto, row.Foto),
     Presensielys_Foto |-> ReadCell(kind.Presensielys_Foto, row.Presensielys_Foto),
     Presensielys_Dokument |-> ReadCell(kind.Presensielys_Dokument, row.Presensielys_Dokument)]

RECURSIVE ReadRows(_, _, _)
ReadRows(table, n, kind) ==
    IF n = 0 THEN <<>>
    ELSE Append(ReadRows(table, n - 1, kind), ReadRow(table[n], n - 1, kind))

(* pd.read_csv(CSV_FILE): one typed row per data row, labelled 0, 1, 2, ... *)
ReadCsv(table) ==
    ReadRows(table, Len(table),
        [Graad |-> ColKind(table, "Graad"),
         Vak |-> ColKind(table, "Vak"),
         Tema |-> ColKind(table, "Tema"),
         Begintyd |-> ColKind(table, "Begintyd"),
         Eindtyd |-> ColKind(table, "Eindtyd"),
         TotaalGenooi |-> ColKind(table, "TotaalGenooi"),
         TotaalOpgedaag |-> ColKind(table, "TotaalOpgedaag"),
         Opvoeder |-> ColKind(table, "Opvoeder"),
         Foto |-> ColKind(table, "Foto"),
         Presensielys_Foto |-> ColKind(table, "Presensielys_Foto"),
         Presensielys_Dokument |-> ColKind(table, "Presensielys_Dokument")])

(* The text to_csv writes for a value *)
CellText(v) ==
    IF v.k = "nan" THEN ""
    ELSE IF v.k = "str" THEN v.s
    ELSE IF v.k = "int" THEN NumText(v.n)
    ELSE NumText(v.n) \o ".0"

WriteRow(r) ==
    [Datum |-> r.Datum,
     Graad |-> CellText(r.Graad),
     Vak |-> CellText(r.Vak),
     Tema |-> CellText(r.Tema),
     Begintyd |-> CellText(r.Begintyd),
     Eindtyd |-> CellText(r.Eindtyd),
     TotaalGenooi |-> CellText(r.TotaalGenooi),
     TotaalOpgedaag |-> CellText(r.TotaalOpgedaag),
     Opvoeder |-> CellText(r.Opvoeder),
     Foto |-> CellText(r.Foto),
     Presensielys_Foto |-> CellText(r.Presensielys_Foto),
     Presensielys_Dokument |-> CellText(r.Presensielys_Dokument)]

(* df.to_csv(CSV_FILE, index=False) *)
RECURSIVE ToCsv(_)
ToCsv(df) ==
    IF df = <<>> THEN <<>>
    ELSE <<WriteRow(Head(df))>> \o ToCsv(Tail(df))

(* pd.to_datetime(df["Datum"], errors="coerce") on one cell *)
ToDatetime(c) ==
    IF IsIsoText(c) /\ ValidDate(c.y, c.m, c.d)
    THEN Ts(ToOrdinal(c.y, c.m, c.d), 0)
    ELSE NaT

RECURSIVE ParseDatum(_)
ParseDatum(df) ==
    IF df = <<>> THEN <<>>
    ELSE <<[Head(df) EXCEPT !.Datum = ToDatetime(@)]>> \o ParseDatum(Tail(df))

(* df.sort_values("Datum", ascending=False): newest first, NaT last, ties in *)
(* the order of the table (the sort of a short column is an insertion sort).  *)
DatumKey(r) == IF r.Datum.k = "ts" THEN r.Datum.ord ELSE -1

RECURSIVE InsertDesc(_, _)
InsertDesc(sorted, r) ==
    IF sorted = <<>> THEN <<r>>
    ELSE IF DatumKey(Head(sorted)) >= DatumKey(r)
         THEN <<Head(sorted)>> \o InsertDesc(Tail(sorted), r)
         ELSE <<r>> \o sorted

RECURSIVE SortDesc(_)
SortDesc(df) ==
    IF df = <<>> THEN <<>>
    ELSE InsertDesc(SortDesc(SubSeq(df, 1, Len(df) - 1)), df[Len(df)])

----------------------------------------------------------------------------
(* The three loaders *)

(* round(2) of a / b * 100, in hundredths, ties to even as numpy rounds *)
Round2(a, b) ==
    LET q == (a * 10000) \div b
        r == (a * 10000) % b
    IN  IF 2 * r < b THEN q
        ELSE IF 2 * r > b THEN q + 1
        ELSE IF q % 2 = 0 THEN q ELSE q + 1

(* One cell of (df["Totaal Opgedaag"] / df["Totaal Genooi"] * 100).round(2): *)
(* pandas divides by zero without raising, giving inf, or nan for 0 / 0.     *)
Aanwesigheid(opgedaag, genooi) ==
    IF opgedaag.k = "nan" \/ genooi.k = "nan" THEN [k |-> "nan"]
    ELSE IF genooi.n = 0
         THEN (IF opgedaag.n = 0 THEN [k |-> "nan"] ELSE [k |-> "inf"])
         ELSE [k |-> "num", h |-> Round2(opgedaag.n, genooi.n)]

AddAanwesigheid(r) ==
    [idx |-> r.idx, Datum |-> r.Datum, Graad |-> r.Graad, Vak |-> r.Vak, Tema |-> r.Tema,
     Begintyd |-> r.Begintyd, Eindtyd |-> r.Eindtyd, TotaalGenooi |-> r.TotaalGenooi,
     TotaalOpgedaag |-> r.TotaalOpgedaag, Opvoeder |-> r.Opvoeder, Foto |-> r.Foto,
     Presensielys_Foto |-> r.Presensielys_Foto,
     Presensielys_Dokument |-> r.Presensielys_Dokument,
     Aanwesigheid |-> Aanwesigheid(r.TotaalOpgedaag, r.TotaalGenooi)]

RECURSIVE WithAanwesigheid(_)
WithAanwesigheid(df) ==
    IF df = <<>> THEN <<>>
    ELSE <<AddAanwesigheid(Head(df))>> \o WithAanwesigheid(Tail(df))

(* load_raw: an empty table is returned as read *)
LoadRaw(table) ==
    LET df == ReadCsv(table)
    IN  IF df = <<>> THEN df ELSE SortDesc(ParseDatum(df))

(* load_intervention_data *)
LoadInterventionData(table) ==
    LET df == ReadCsv(table)
    IN  IF df = <<>> THEN df ELSE SortDesc(WithAanwesigheid(ParseDatum(df)))

FILTER_TYPES == {"Alles", "Weekliks", "Maandeliks", "Kwartaalliks", "Jaarliks"}

WindowDays(filter_type) ==
    IF filter_type = "Weekliks" THEN 7
    ELSE IF filter_type = "Maandeliks" THEN 30
    ELSE IF filter_type = "Kwartaalliks" THEN 90
    ELSE 365

(* df[df["Datum"] >= start] with start = today - timedelta(days=n); today is *)
(* datetime.today(), which carries the time of day.                          *)
WindowFilter(df, today, filter_type) ==
    IF filter_type \in FILTER_TYPES \ {"Alles"}
    THEN LET start == MinusDays(today, WindowDays(filter_type))
             Keep(r) == TsGe(r.Datum, start)
         IN  SelectSeq(df, Keep)
    ELSE df

(* One element of the comparison df[col] == value, value a Python str *)
ElemEq(v, value) == v.k = "str" /\ v.s = value

(* if value and value != 'Alles': df = df[df[col] == value] *)
CategoryFilter(df, col, value) ==
    IF value # "" /\ value # "Alles"
    THEN LET Keep(r) == ElemEq(r[col], value)
         IN  SelectSeq(df, Keep)
    ELSE df

(* load_and_filter_data(filter_type, opvoeder, vak, graad) *)
LoadAndFilterData(table, today, sel) ==
    LET df == ReadCsv(table)
    IN  IF df = <<>> THEN df
        ELSE SortDesc(
               CategoryFilter(
                 CategoryFilter(
                   CategoryFilter(
                     WindowFilter(WithAanwesigheid(ParseDatum(df)), today, sel.filter_type),
                     "Opvoeder", sel.opvoeder),
                   "Vak", sel.vak),
                 "Graad", sel.graad))

----------------------------------------------------------------------------
(* The Word report *)

(* os.path.exists(value) for a cell that is not NaN *)
Exists(files, v) == v.k = "str" /\ v.s \in DOMAIN files

(* read_presensie_to_table(path, max_rows=50): the rows of the frame it returns *)
ReadPresensieToTable(file, max_rows) ==
    IF file.ext \in {"csv", "xls", "xlsx"}
    THEN [ok |-> TRUE, rows |-> IF file.rows > max_rows THEN max_rows ELSE file.rows]
    ELSE [ok |-> FALSE, rows |-> 0]

(* The paragraphs generate_word_report writes for a Presensielys_Dokument *)
DokumentSection(files, v) ==
    IF v.k # "nan" /\ Exists(files, v)
    THEN IF files[v.s].ext \in {"csv", "xls", "xlsx"}
         THEN LET df_p == ReadPresensieToTable(files[v.s], SHEET_MAX_ROWS)
              IN  IF df_p.ok /\ df_p.rows # 0
                  THEN [kind |-> "table", rows |-> df_p.rows,
                        notice |-> (df_p.rows >= NOTICE_FROM_ROWS)]
                  ELSE [kind |-> "unreadable", rows |-> 0, notice |-> FALSE]
         ELSE [kind |-> "filename", rows |-> 0, notice |-> FALSE]
    ELSE [kind |-> "none", rows |-> 0, notice |-> FALSE]

PictureSection(files, v) ==
    IF v.k # "nan" /\ Exists(files, v) THEN "picture" ELSE "none"

(* A row the summary table can take: strftime of NaT raises, and so does a *)
(* cell text that is not a str.                                            *)
Printable(r) ==
    /\ r.Datum.k = "ts"
    /\ r.Vak.k = "str"
    /\ r.Tema.k = "str"
    /\ r.Opvoeder.k = "str"

DetailSection(files, r) ==
    [idx |-> r.idx,
     foto |-> PictureSection(files, r.Foto),
     presensie_foto |-> PictureSection(files, r.Presensielys_Foto),
     dokument |-> DokumentSection(files, r.Presensielys_Dokument)]

RECURSIVE DetailSections(_, _)
DetailSections(files, df) ==
    IF df = <<>> THEN <<>>
    ELSE <<DetailSection(files, Head(df))>> \o DetailSections(files, Tail(df))

(* generate_word_report(df) inside the try of the download button *)
GenerateWordReport(df, files) ==
    IF \E i \in 1..Len(df) : ~Printable(df[i])
    THEN [ok |-> FALSE, details |-> <<>>]
    ELSE [ok |-> TRUE, details |-> DetailSections(files, df)]

----------------------------------------------------------------------------
(* st.cache_data and one run of the script *)

Miss == [hit |-> FALSE, df |-> <<>>]
Hit(df) == [hit |-> TRUE, df |-> df]

Today(clock) == Ts(clock.ord, clock.sec)

CachedRaw(c, table) == IF c.hit THEN c ELSE Hit(LoadRaw(table))
CachedInterv(c, table) == IF c.hit THEN c ELSE Hit(LoadInterventionData(table))
CachedFilter(c, table, clock, sel) ==
    IF sel \in DOMAIN c THEN c
    ELSE LET df == LoadAndFilterData(table, Today(clock), sel)
         IN  [k \in DOMAIN c \cup {sel} |-> IF k = sel THEN df ELSE c[k]]

(* The sidebar options built from raw_df *)
ColumnOptions(raw, col) == {"Alles"} \cup {raw[i][col].s : i \in {j \in 1..Len(raw) : raw[j][col].k = "str"}}
GraadOptions == {"Alles"} \cup Range(GRADE_OPTIONS)

NoFilter == [filter_type |-> "Alles", opvoeder |-> "Alles", vak |-> "Alles", graad |-> "Alles"]

(* A selectbox whose value is no longer among its options falls back to the first *)
NormSel(sel, raw) ==
    [filter_type |-> sel.filter_type,
     opvoeder |-> IF sel.opvoeder \in ColumnOptions(raw, "Opvoeder") THEN sel.opvoeder ELSE "Alles",
     vak |-> IF sel.vak \in ColumnOptions(raw, "Vak") THEN sel.vak ELSE "Alles",
     graad |-> sel.graad]

(* The entries list of the deletion section calls strftime on every Datum of raw_df *)
EntriesOk(raw) == \A i \in 1..Len(raw) : raw[i].Datum.k = "ts"

(* The end of a run: df = load_and_filter_data(...) is shown and the report built *)
ScriptRunServe(r, i, f, s, files) ==
    [cacheRaw |-> r, cacheInterv |-> i, cacheFilter |-> f,
     served |-> [sel |-> s, raw |-> r.df, interv |-> i.df, filt |-> f[s],
                 report |-> IF EntriesOk(r.df) THEN GenerateWordReport(f[s], files)
                            ELSE [ok |-> FALSE, details |-> <<>>]]]

(* The run from the log display on, with raw_df r and the sidebar selection s *)
ScriptRunFromSel(r, s, ci, cf, table, files, clock) ==
    ScriptRunServe(r, CachedInterv(ci, table), CachedFilter(cf, table, clock, s), s, files)

(* The run from the sidebar on, with raw_df r *)
ScriptRunFromRaw(r, ci, cf, table, files, clock, sel) ==
    ScriptRunFromSel(r, NormSel(sel, r.df), ci, cf, table, files, clock)

(* One run of the script with no button pressed: what it caches and what it shows *)
ScriptRun(cr, ci, cf, table, files, clock, sel) ==
    ScriptRunFromRaw(CachedRaw(cr, table), ci, cf, table, files, clock, sel)

----------------------------------------------------------------------------
(* The form *)

NoUpload == [given |-> FALSE, ext |-> "", rows |-> 0]
Upload(ext, rows) == [given |-> TRUE, ext |-> ext, rows |-> rows]

(* all([datum, graad, vak, tema, begintyd, eindtyd, opvoeder, totaal_genooi]): a *)
(* date and a time are always true, a str is true when not empty, a number when *)
(* not zero.                                                                    *)
AllRequired(form) ==
    /\ form.graad # ""
    /\ form.vak # ""
    /\ form.tema # ""
    /\ form.opvoeder # ""
    /\ form.totaal_genooi # 0

(* The validation chain without its comparison of the two counts *)
ValidationError_CountsUnchecked(form) ==
    IF ~AllRequired(form)
    THEN "Alle verpligte velde (behalwe presensielys) moet ingevul word!"
    ELSE IF form.begintyd >= form.eindtyd
    THEN "Eindtyd moet later as Begintyd wees!"
    ELSE IF ~(form.presensie_foto.given \/ form.presensie_dokument.given)
    THEN "Ten minste een presensielys (foto of dokument) moet opgelaai word!"
    ELSE ""

(* The validation chain of the submit handler: the error it shows, or "" *)
ValidationError(form) ==
    IF ~AllRequired(form)
    THEN "Alle verpligte velde (behalwe presensielys) moet ingevul word!"
    ELSE IF form.totaal_opgedaag > form.totaal_genooi
    THEN "Totaal Opgedaag kan nie meer as Totaal Genooi wees nie!"
    ELSE IF form.begintyd >= form.eindtyd
    THEN "Eindtyd moet later as Begintyd wees!"
    ELSE IF ~(form.presensie_foto.given \/ form.presensie_dokument.given)
    THEN "Ten minste een presensielys (foto of dokument) moet opgelaai word!"
    ELSE ""

(* os.path.join(dir, f"{prefix}_{timestamp}{ext}"), "" when nothing was uploaded *)
ArtifactPath(dir, prefix, clock, upload) ==
    IF upload.given
    THEN dir \o "/" \o prefix \o "_" \o StampText(clock) \o "." \o upload.ext
    ELSE ""

(* open(path, "wb").write(...) for each upload given *)
SaveUploads(files, clock, form) ==
    LET written == {u \in {[path |-> ArtifactPath(FOTO_DIR, "foto", clock, form.foto), up |-> form.foto],
                           [path |-> ArtifactPath(PRES_DIR, "presensie_foto", clock, form.presensie_foto),
                            up |-> form.presensie_foto],
                           [path |-> ArtifactPath(PRES_DIR, "presensie_dokument", clock, form.presensie_dokument),
                            up |-> form.presensie_dokument]} : u.up.given}
        paths == {u.path : u \in written}
    IN  [p \in DOMAIN files \cup paths |->
            IF p \in paths
            THEN LET u == CHOOSE w \in written : w.path = p
                 IN  [ext |-> u.up.ext, rows |-> u.up.rows]
            ELSE files[p]]

NewEntry(form, clock) ==
    [Datum |-> DateText(form.datum),
     Graad |-> StrVal(form.graad),
     Vak |-> StrVal(form.vak),
     Tema |-> StrVal(form.tema),
     Begintyd |-> StrVal(TimeText(form.begintyd)),
     Eindtyd |-> StrVal(TimeText(form.eindtyd)),
     TotaalGenooi |-> IntVal(form.totaal_genooi),
     TotaalOpgedaag |-> IntVal(form.totaal_opgedaag),
     Opvoeder |-> StrVal(form.opvoeder),
     Foto |-> StrVal(ArtifactPath(FOTO_DIR, "foto", clock, form.foto)),
     Presensielys_Foto |-> StrVal(ArtifactPath(PRES_DIR, "presensie_foto", clock, form.presensie_foto)),
     Presensielys_Dokument |-> StrVal(ArtifactPath(PRES_DIR, "presensie_dokument", clock, form.presensie_dokument))]

(* df = pd.read_csv(CSV_FILE); df = pd.concat([df, new]); df.to_csv(CSV_FILE) *)
AppendEntry(table, entry) == ToCsv(ReadCsv(table) \o <<entry>>)

----------------------------------------------------------------------------
(* The GitHub mirror: what st.secrets holds and how the upload ends *)

SYNC_OUTCOMES == {"nofile",   \* no secrets file: st.secrets.get raises
                  "unset",    \* GITHUB_TOKEN or GITHUB_REPO missing or empty
                  "blank",    \* the token is white space: upload_file_to_github returns False
                  "fail",     \* the upload raises inside upload_file_to_github: False
                  "ok"}       \* the upload succeeds: True

Error(text) == [level |-> "error", text |-> text]
Warning(text) == [level |-> "warning", text |-> text]
Success(text) == [level |-> "success", text |-> text]

(* The messages of upload_file_to_github itself *)
UploadMsgs(sync) ==
    IF sync = "blank" THEN <<Error("GitHub token is leeg of ontbreek!")>>
    ELSE IF sync = "fail" THEN <<Error("GitHub upload misluk")>>
    ELSE <<>>

(* The sync block of the submit handler *)
SubmitSyncMsgs(sync) ==
    IF sync = "nofile" THEN <<Error("Onverwagte GitHub fout")>>
    ELSE IF sync = "unset" THEN <<Warning("GitHub konfigurasie ontbreek in secrets.")>>
    ELSE IF sync = "ok" THEN <<Success("Data gestoor en gesinkroniseer met GitHub!")>>
    ELSE UploadMsgs(sync) \o <<Warning("Data lokaal gestoor, maar GitHub sinkronisasie misluk.")>>

(* The sync block of the deletion handler and what follows it inside the try *)
DeleteSyncMsgs(sync) ==
    IF sync = "nofile" THEN <<Error("Fout met verwydering")>>
    ELSE IF sync = "unset" THEN <<Success("Inskrywing suksesvol verwyder!")>>
    ELSE UploadMsgs(sync) \o <<Success("Inskrywing suksesvol verwyder!")>>

----------------------------------------------------------------------------
(* The deletion section *)

ARTIFACT_COLUMNS == {"Foto", "Presensielys_Foto", "Presensielys_Dokument"}

(* if pd.notna(row[col]) and os.path.exists(row[col]): os.remove(row[col]) *)
RemoveArtifacts(files, row) ==
    LET gone == {row[c].s : c \in {a \in ARTIFACT_COLUMNS : row[a].k # "nan" /\ Exists(files, row[a])}}
    IN  [p \in DOMAIN files \ gone |-> files[p]]

(* A drop that keeps only the rows before idx, as full_df.iloc[:idx] would *)
DropRow_Truncating(table, idx) ==
    LET Keep(r) == r.idx < idx
    IN  ToCsv(SelectSeq(ReadCsv(table), Keep))

(* full_df.drop(idx).reset_index(drop=True).to_csv(CSV_FILE, index=False) *)
DropRow(table, idx) ==
    LET Keep(r) == r.idx # idx
    IN  ToCsv(SelectSeq(ReadCsv(table), Keep))

(* The labels "ID {idx}: ..." of the entries list, by their idx *)
Entries(raw) == {raw[i].idx : i \in 1..Len(raw)}

----------------------------------------------------------------------------
(* The state machine *)

EmptyCache == [k \in {} |-> <<>>]

(* The sessions that may be open at once, and a session that is in no handler *)
Sessions == 1..MaxSessions
Idle == [kind |-> "idle", overwrote |-> FALSE]
NoneInFlight == [s \in Sessions |-> Idle]
NoFiles == [p \in {} |-> NoUpload]

StartClock == [ord |-> ToOrdinal(2024, 3, 15), sec |-> 10 * 3600]

NothingServed ==
    [sel |-> NoFilter, raw |-> <<>>, interv |-> <<>>, filt |-> <<>>,
     report |-> [ok |-> TRUE, details |-> <<>>]]

Init ==
    /\ csv = <<>>
    /\ fs = NoFiles
    /\ cacheRaw = Miss
    /\ cacheInterv = Miss
    /\ cacheFilter = EmptyCache
    /\ now = StartClock
    /\ served = NothingServed
    /\ msgs = <<>>
    /\ last = [op |-> "start"]
    /\ page = 0
    /\ inflight = NoneInFlight

(* What the user enters in the form, within the bounds: two forms that pass the *)
(* validation chain, and the first of them with one or two fields spoiled.     *)
GoodForms ==
    LET form == [datum |-> FromOrdinal(now.ord), graad |-> GRADE_OPTIONS[1], vak |-> "Wisk",
                 tema |-> "Breuke", begintyd |-> 8 * 60, eindtyd |-> 9 * 60,
                 totaal_genooi |-> MaxCount, totaal_opgedaag |-> MaxCount - 1,
                 opvoeder |-> "Jan", foto |-> Upload("jpg", 3),
                 presensie_foto |-> Upload("jpg", 3), presensie_dokument |-> Upload("csv", 3)]
    IN  <<form,
          [form EXCEPT !.datum = FromOrdinal(now.ord - 8), !.foto = NoUpload,
                       !.presensie_dokument = NoUpload]>>

BadForms ==
    LET good == GoodForms[1]
    IN  {[good EXCEPT !.vak = ""],
         [good EXCEPT !.totaal_opgedaag = good.totaal_genooi + 1],
         [good EXCEPT !.vak = "", !.totaal_opgedaag = good.totaal_genooi + 1],
         [good EXCEPT !.begintyd = good.eindtyd],
         [good EXCEPT !.presensie_foto = NoUpload, !.presensie_dokument = NoUpload]}

FormInputs == Range(GoodForms) \cup BadForms

(* What the user chooses in the sidebar *)
SelInputs == {[NoFilter EXCEPT !.filter_type = "Weekliks"]}

Shows(run) ==
    /\ cacheRaw' = run.cacheRaw
    /\ cacheInterv' = run.cacheInterv
    /\ cacheFilter' = run.cacheFilter
    /\ served' = run.served

(* A run of the script with no button pressed *)
Render(sel) ==
    /\ Shows(ScriptRun(cacheRaw, cacheInterv, cacheFilter, csv, fs, now, sel))
    /\ msgs' = <<>>
    /\ last' = [op |-> "render"]
    /\ UNCHANGED <<csv, fs, now, page, inflight>>

(* "Stoor Intervensie" with a form the validation chain turns down: the handler *)
(* shows the error and the run goes on to the end of the script.                *)
SubmitRejected(sel) ==
    LET run == ScriptRun(cacheRaw, cacheInterv, cacheFilter, csv, fs, now, sel)
    IN  \E form \in FormInputs :
            /\ ValidationError(form) # ""
            /\ Shows(run)
            /\ msgs' = <<Error(ValidationError(form))>>
            /\ last' = [op |-> "submit", ok |-> FALSE, form |-> form]
            /\ UNCHANGED <<csv, fs, now, page, inflight>>

(* "Stoor Intervensie" with a form that passes: files, table, mirror, clear, rerun *)
SubmitWritten(form, sel, table, files) ==
    /\ fs' = files
    /\ csv' = table
    \* load_intervention_data.clear(); load_raw.clear(); st.rerun()
    /\ Shows(ScriptRun(Miss, Miss, cacheFilter, table, files, now, sel))
    /\ \E sync \in SYNC_OUTCOMES :
          /\ msgs' = SubmitSyncMsgs(sync)
          /\ last' = [op |-> "submit", ok |-> TRUE, form |-> form, sync |-> sync]
    /\ UNCHANGED now

Submit(form, sel) ==
    /\ ValidationError(form) = ""
    /\ Len(csv) < MaxRows
    /\ SubmitWritten(form, sel, AppendEntry(csv, NewEntry(form, now)), SaveUploads(fs, now, form))
    /\ UNCHANGED <<page, inflight>>

(* An except branch that swallows the KeyError and shows nothing *)
DeleteNotFound_Silent(sel, run, idx) ==
    /\ Shows(run)
    /\ msgs' = <<>>
    /\ last' = [op |-> "delete", ok |-> FALSE, idx |-> idx, removed |-> FALSE]
    /\ UNCHANGED <<csv, fs, now>>

(* full_df.loc[idx] raises KeyError: the except branch shows the error *)
DeleteNotFound(sel, run, idx) ==
    /\ Shows(run)
    /\ msgs' = <<Error("Fout met verwydering")>>
    /\ last' = [op |-> "delete", ok |-> FALSE, idx |-> idx, removed |-> FALSE]
    /\ UNCHANGED <<csv, fs, now>>

(* The table and the files are written; then the mirror, the message, the three *)
(* clear() calls and st.rerun(), or, when st.secrets.get raises, the except     *)
(* branch, after which the run goes on with what it had loaded.                 *)
DeleteWritten(sel, run, idx, table, files) ==
    /\ csv' = table
    /\ fs' = files
    /\ \E sync \in SYNC_OUTCOMES :
          /\ msgs' = DeleteSyncMsgs(sync)
          /\ IF sync = "nofile"
             THEN Shows([run EXCEPT !.served.report = GenerateWordReport(run.served.filt, files)])
             ELSE Shows(ScriptRun(Miss, Miss, EmptyCache, table, files, now, sel))
          /\ last' = [op |-> "delete", ok |-> (sync # "nofile"), idx |-> idx,
                      removed |-> TRUE, sync |-> sync]
    /\ UNCHANGED now

(* The row is dropped, the table rewritten, the files removed, the table mirrored *)
DeleteFound(sel, run, idx) ==
    DeleteWritten(sel, run, idx, DropRow(csv, idx), RemoveArtifacts(fs, ReadCsv(csv)[idx + 1]))

(* The deletion section offers its selectbox and button: raw_df is not empty *)
(* and the entries list could be built.                                     *)
DeleteOffered(run) ==
    /\ run.served.raw # <<>>
    /\ EntriesOk(run.served.raw)

(* The handler with the entry "ID idx: ..." selected, in the run that shows it *)
DeleteEntry(sel, run) ==
    /\ DeleteOffered(run)
    /\ \E idx \in Entries(run.served.raw) :
          IF idx >= Len(csv)
          THEN DeleteNotFound(sel, run, idx)
          ELSE DeleteFound(sel, run, idx)
    /\ UNCHANGED <<page, inflight>>

(* "Bevestig Verwydering" with the entry "ID idx: ..." selected *)
Delete(sel) ==
    DeleteEntry(sel, ScriptRun(cacheRaw, cacheInterv, cacheFilter, csv, fs, now, sel))

(* The handler with "Geen" selected does nothing and the run goes on *)
DeleteNothing(run) ==
    /\ DeleteOffered(run)
    /\ Shows(run)
    /\ msgs' = <<>>
    /\ last' = [op |-> "delete_geen"]
    /\ UNCHANGED <<csv, fs, now, page, inflight>>

(* "Bevestig Verwydering" with "Geen" selected *)
DeleteGeen(sel) ==
    DeleteNothing(ScriptRun(cacheRaw, cacheInterv, cacheFilter, csv, fs, now, sel))

(* The clock advances by a second *)
Tick ==
    /\ now.sec < StartClock.sec + MaxClock
    /\ now' = [now EXCEPT !.sec = @ + 1]
    /\ last' = [op |-> "tick"]
    /\ UNCHANGED <<csv, fs, cacheRaw, cacheInterv, cacheFilter, served, msgs, page, inflight>>

(* Five minutes pass without a write: the ttl=300 of load_raw runs out *)
ExpireRaw ==
    /\ cacheRaw.hit
    /\ cacheRaw' = Miss
    /\ last' = [op |-> "expire"]
    /\ UNCHANGED <<csv, fs, cacheInterv, cacheFilter, now, served, msgs, page, inflight>>

(* Ten minutes pass: the ttl=600 of the other two loaders runs out as well *)
ExpireAll ==
    /\ cacheInterv.hit \/ cacheFilter # EmptyCache
    /\ cacheRaw' = Miss
    /\ cacheInterv' = Miss
    /\ cacheFilter' = EmptyCache
    /\ last' = [op |-> "expire"]
    /\ UNCHANGED <<csv, fs, now, served, msgs, page, inflight>>

Next ==
    \/ \E sel \in SelInputs : Render(sel)
    \/ \E sel \in SelInputs : SubmitRejected(sel)
    \/ \E sel \in SelInputs, form \in FormInputs : Submit(form, sel)
    \/ \E sel \in SelInputs : Delete(sel)
    \/ \E sel \in SelInputs : DeleteGeen(sel)
    \/ Tick
    \/ ExpireRaw
    \/ ExpireAll

Spec == Init /\ [][Next]_vars

----------------------------------------------------------------------------
(* The loaders on tables that are already there when the script starts *)

Started(table, files, clock) ==
    /\ csv = table
    /\ fs = files
    /\ now = clock
    /\ cacheRaw = Miss
    /\ cacheInterv = Miss
    /\ cacheFilter = EmptyCache
    /\ served = NothingServed
    /\ msgs = <<>>
    /\ last = [op |-> "start"]
    /\ page = 0
    /\ inflight = NoneInFlight

(* A form that passes, entered on the day `back` days before the clock's *)
FormOf(clock, back, graad, vak, opvoeder) ==
    [datum |-> FromOrdinal(clock.ord - back), graad |-> graad, vak |-> vak,
     tema |-> "Breuke", begintyd |-> 8 * 60, eindtyd |-> 9 * 60,
     totaal_genooi |-> 2, totaal_opgedaag |-> 1, opvoeder |-> opvoeder,
     foto |-> NoUpload, presensie_foto |-> Upload("jpg", 3), presensie_dokument |-> NoUpload]

(* The window filter: one record, dated around each window's boundary, and a *)
(* clock at midnight, in the morning or in the last second of the day.       *)
BackInputs ==
    UNION {(w - MaxBack)..(w + MaxBack) : w \in {0, 7, 30, 90, 365}}

ClockInputs == {[ord |-> StartClock.ord, sec |-> t] : t \in {0, 10 * 3600, 24 * 3600 - 1}}

InitFilter ==
    \E clock \in ClockInputs, back \in BackInputs :
        Started(AppendEntry(<<>>, NewEntry(FormOf(clock, back, "8", "Wisk", "Jan"), clock)),
                NoFiles, clock)

NextFilter == \E ft \in FILTER_TYPES : Render([NoFilter EXCEPT !.filter_type = ft])

SpecFilter == InitFilter /\ [][NextFilter]_vars

(* The category filters: two records entered through the form *)
CategoryForms ==
    {FormOf(StartClock, 0, g, v, o) : g \in {"8", "9"}, v \in {"Wisk", "Eng"}, o \in {"Jan", "Piet"}}

InitCategory ==
    \E f1 \in CategoryForms, f2 \in CategoryForms :
        Started(AppendEntry(AppendEntry(<<>>, NewEntry(f1, StartClock)), NewEntry(f2, StartClock)),
                NoFiles, StartClock)

CategorySels ==
    {[NoFilter EXCEPT !.opvoeder = "Jan"], [NoFilter EXCEPT !.vak = "Wisk"],
     [NoFilter EXCEPT !.graad = "8"],
     [NoFilter EXCEPT !.opvoeder = "Jan", !.vak = "Wisk", !.graad = "8"]}

NextCategory == \E sel \in CategorySels : Render(sel)

SpecCategory == InitCategory /\ [][NextCategory]_vars

(* The attendance ratio: one row of a table written by hand or by an earlier *)
(* revision, with any two counts.                                            *)
InitRatio ==
    \E genooi \in Numerals, opgedaag \in Numerals :
        Started(<<[WriteRow(NewEntry(FormOf(StartClock, 0, "8", "Wisk", "Jan"), StartClock))
                     EXCEPT !.TotaalGenooi = NumText(genooi),
                            !.TotaalOpgedaag = NumText(opgedaag)]>>,
                NoFiles, StartClock)

NextRatio == Render(NoFilter)

SpecRatio == InitRatio /\ [][NextRatio]_vars

(* The report: one record whose attendance sheet has any number of data rows *)
InitReport ==
    \E rows \in 0..MaxSheetRows, ext \in {"csv", "xlsx"} :
        LET form == [FormOf(StartClock, 0, "8", "Wisk", "Jan")
                       EXCEPT !.presensie_dokument = Upload(ext, rows)]
        IN  Started(AppendEntry(<<>>, NewEntry(form, StartClock)),
                    SaveUploads(NoFiles, StartClock, form), StartClock)

NextReport == Render(NoFilter)

SpecReport == InitReport /\ [][NextReport]_vars

(* Two sessions: each handler reads the table, and rewrites it in a later step. *)
(* What a session has read stays with it in inflight; overwrote records, once   *)
(* it has written, whether the table had changed since it read it.              *)

(* A reread of the table at the time of the write, which the handlers do not do *)
ConcatEntry_Reread(df, entry) == ToCsv(ReadCsv(csv) \o <<entry>>)

(* pd.concat([df, pd.DataFrame([new_entry])], ignore_index=True).to_csv(...) *)
ConcatEntry(df, entry) == ToCsv(df \o <<entry>>)

(* full_df.drop(idx).reset_index(drop=True).to_csv(...) on the frame read before *)
DropLabel(df, idx) ==
    LET Keep(r) == r.idx # idx
    IN  ToCsv(SelectSeq(df, Keep))

Written(s) == [inflight EXCEPT ![s] = [kind |-> "idle", overwrote |-> (csv # inflight[s].base)]]

(* The submit handler up to and including df = pd.read_csv(CSV_FILE) *)
AppendRead(s, form) ==
    /\ inflight[s].kind = "idle"
    /\ ValidationError(form) = ""
    /\ Len(csv) < MaxRows
    /\ cacheRaw' = CachedRaw(cacheRaw, csv)
    /\ fs' = SaveUploads(fs, now, form)
    /\ inflight' = [inflight EXCEPT ![s] = [kind |-> "append", form |-> form, clock |-> now,
                                            df |-> ReadCsv(csv), base |-> csv]]
    /\ last' = [op |-> "read", session |-> s]
    /\ UNCHANGED <<csv, cacheInterv, cacheFilter, now, served, msgs, page>>

(* The submit handler from pd.concat on: rewrite, mirror, clear, rerun *)
AppendWrite(s, sel) ==
    /\ inflight[s].kind = "append"
    /\ SubmitWritten(inflight[s].form, sel,
                     ConcatEntry(inflight[s].df, NewEntry(inflight[s].form, inflight[s].clock)), fs)
    /\ inflight' = Written(s)
    /\ UNCHANGED page

(* The deletion handler up to and including row_to_delete = full_df.loc[idx] *)
DeleteRead(s, sel, run) ==
    /\ inflight[s].kind = "idle"
    /\ DeleteOffered(run)
    /\ \E idx \in Entries(run.served.raw) :
          IF idx >= Len(csv)
          THEN /\ DeleteNotFound(sel, run, idx)
               /\ UNCHANGED <<page, inflight>>
          ELSE /\ Shows(run)
               /\ inflight' = [inflight EXCEPT ![s] = [kind |-> "delete", idx |-> idx, run |-> run,
                                                       df |-> ReadCsv(csv), base |-> csv]]
               /\ last' = [op |-> "read", session |-> s]
               /\ UNCHANGED <<csv, fs, now, msgs, page>>

(* The deletion handler from full_df.drop(idx) on *)
DeleteWrite(s, sel) ==
    /\ inflight[s].kind = "delete"
    /\ DeleteWritten(sel, inflight[s].run, inflight[s].idx,
                     DropLabel(inflight[s].df, inflight[s].idx),
                     RemoveArtifacts(fs, inflight[s].df[inflight[s].idx + 1]))
    /\ inflight' = Written(s)
    /\ UNCHANGED page

(* The form the sessions submit: the one with a Presensielys photo only *)
RaceForms == {GoodForms[2]}

NextRace ==
    \/ \E s \in Sessions, form \in RaceForms : AppendRead(s, form)
    \/ \E s \in Sessions, sel \in SelInputs : AppendWrite(s, sel)
    \/ \E s \in Sessions, sel \in SelInputs :
          DeleteRead(s, sel, ScriptRun(cacheRaw, cacheInterv, cacheFilter, csv, fs, now, sel))
    \/ \E s \in Sessions, sel \in SelInputs : DeleteWrite(s, sel)
    \/ Tick

SpecRace == Init /\ [][NextRace]_vars

(* Dates that do not parse: a table edited by hand holds one or two rows, at *)
(* least one of them with a Datum that pd.to_datetime coerces to NaT.        *)
UndatedTexts == {[raw |-> "onbekend"], [raw |-> ""], [y |-> 2024, m |-> 2, d |-> 30]}

DatedTexts == {DateText(FromOrdinal(StartClock.ord - back)) : back \in {0, 8}}

RowDated(datum) ==
    [WriteRow(NewEntry(FormOf(StartClock, 0, "8", "Wisk", "Jan"), StartClock)) EXCEPT !.Datum = datum]

InitUndated ==
    \E bad \in UndatedTexts :
        \/ Started(<<RowDated(bad)>>, NoFiles, StartClock)
        \/ \E other \in UndatedTexts \cup DatedTexts :
              \/ Started(<<RowDated(bad), RowDated(other)>>, NoFiles, StartClock)
              \/ Started(<<RowDated(other), RowDated(bad)>>, NoFiles, StartClock)

NextUndated == \E ft \in FILTER_TYPES : Render([NoFilter EXCEPT !.filter_type = ft])

SpecUndated == InitUndated /\ [][NextUndated]_vars

----------------------------------------------------------------------------
(* Submissions and deletions alone, with a facilitator whose name is one of *)
(* the texts read_csv takes for a missing value                             *)

RowForms == {GoodForms[2], [GoodForms[2] EXCEPT !.opvoeder = "NA"]}

NextRows ==
    \/ \E sel \in SelInputs : SubmitRejected(sel)
    \/ \E form \in RowForms, sel \in SelInputs : Submit(form, sel)
    \/ \E sel \in SelInputs : Delete(sel)
    \/ Tick

SpecRows == Init /\ [][NextRows]_vars

----------------------------------------------------------------------------
(* The log display and its pagination *)

(* total_pages = (total_entries + ENTRIES_PER_PAGE - 1) // ENTRIES_PER_PAGE *)
TotalPages(total_entries) == (total_entries + ENTRIES_PER_PAGE - 1) \div ENTRIES_PER_PAGE

(* intervention_df.iloc[start_idx:end_idx] *)
PageSlice(df, p) ==
    LET start_idx == p * ENTRIES_PER_PAGE
        end_idx == IF start_idx + ENTRIES_PER_PAGE < Len(df) THEN start_idx + ENTRIES_PER_PAGE ELSE Len(df)
    IN  SubSeq(df, start_idx + 1, end_idx)

(* "Vorige": offered when the log is not empty and the page is not the first; *)
(* the page goes down by one and the script runs again.                       *)
Vorige(run) ==
    /\ run.served.interv # <<>>
    /\ page > 0
    /\ page' = page - 1
    /\ Shows(run)
    /\ msgs' = <<>>
    /\ last' = [op |-> "vorige"]
    /\ UNCHANGED <<csv, fs, now, inflight>>

(* "Volgende": offered when the log is not empty and the page is before the *)
(* last; the page goes up by one and the script runs again.                 *)
Volgende(run) ==
    /\ run.served.interv # <<>>
    /\ page < TotalPages(Len(run.served.interv)) - 1
    /\ page' = page + 1
    /\ Shows(run)
    /\ msgs' = <<>>
    /\ last' = [op |-> "volgende"]
    /\ UNCHANGED <<csv, fs, now, inflight>>

(* "Stoor Intervensie" with a form that passes, while the table has room *)
PageSubmit(form, sel) ==
    /\ ValidationError(form) = ""
    /\ Len(csv) < MaxPageRows
    /\ SubmitWritten(form, sel, AppendEntry(csv, NewEntry(form, now)), SaveUploads(fs, now, form))
    /\ UNCHANGED <<page, inflight>>

(* "Bevestig Verwydering" with the last entry of the list selected *)
PageDelete(sel, run) ==
    /\ DeleteOffered(run)
    /\ LET idx == Len(run.served.raw) - 1
       IN  IF idx >= Len(csv)
           THEN DeleteNotFound(sel, run, idx)
           ELSE DeleteFound(sel, run, idx)
    /\ UNCHANGED <<page, inflight>>

NextPage ==
    \/ \E sel \in SelInputs :
          Vorige(ScriptRun(cacheRaw, cacheInterv, cacheFilter, csv, fs, now, sel))
    \/ \E sel \in SelInputs :
          Volgende(ScriptRun(cacheRaw, cacheInterv, cacheFilter, csv, fs, now, sel))
    \/ \E sel \in SelInputs : PageSubmit(GoodForms[2], sel)
    \/ \E sel \in SelInputs :
          PageDelete(sel, ScriptRun(cacheRaw, cacheInterv, cacheFilter, csv, fs, now, sel))
    \/ Tick

SpecPage == Init /\ [][NextPage]_vars

----------------------------------------------------------------------------
(* The properties *)

Levels(ms) == {ms[i].level : i \in 1..Len(ms)}
ServedIdx(df) == {df[i].idx : i \in 1..Len(df)}
DateOrdinal(c) == ToOrdinal(c.y, c.m, c.d)
Min(a, b) == IF a < b THEN a ELSE b
Abs(n) == IF n < 0 THEN -n ELSE n

(* C1: a submission with Totaal Opgedaag greater than Totaal Genooi is turned *)
(* down with a validation error, and the step leaves the table and the        *)
(* artifact files exactly as they were.                                       *)
C1_RejectionChangesNothing ==
    [][(last'.op = "submit" /\ last'.form.totaal_opgedaag > last'.form.totaal_genooi)
          => /\ ~last'.ok
             /\ msgs' # <<>>
             /\ Levels(msgs') = {"error"}
             /\ csv' = csv
             /\ fs' = fs]_vars

C1_Witness ==
    /\ last.op = "submit"
    /\ last.form.totaal_opgedaag > last.form.totaal_genooi
    /\ AllRequired(last.form)
    /\ csv # <<>>

(* C2: with a window chosen, the filtered view keeps a record exactly when its *)
(* calendar date is on or after the calendar date of now minus the window's    *)
(* days, whatever the time of day of now.                                      *)
C2_WindowKeepsByCalendarDate ==
    (last.op = "render" /\ served.sel.filter_type # "Alles")
        => \A i \in 1..Len(csv) :
              ((i - 1) \in ServedIdx(served.filt))
                  <=> (DateOrdinal(csv[i].Datum) >= now.ord - WindowDays(served.sel.filter_type))

(* C3: with categories chosen, the filtered view holds exactly the records   *)
(* whose submitted Opvoeder, Vak and Graad are the chosen ones.              *)
Accepted(row, sel) ==
    /\ sel.opvoeder = "Alles" \/ row.Opvoeder = sel.opvoeder
    /\ sel.vak = "Alles" \/ row.Vak = sel.vak
    /\ sel.graad = "Alles" \/ row.Graad = sel.graad

C3_CategoryKeepsSubmittedValue ==
    last.op = "render"
        => ServedIdx(served.filt) = {i - 1 : i \in {j \in 1..Len(csv) : Accepted(csv[j], served.sel)}}

C5_ViewsFreshAfterWrite ==
    (last.op \in {"submit", "delete"} /\ last.ok)
        => /\ served.raw = LoadRaw(csv)
           /\ served.interv = LoadInterventionData(csv)
           /\ served.filt = LoadAndFilterData(csv, Today(now), served.sel)

(* C6: a record with Totaal Genooi 0 has the ratio 0.0; a record with Totaal *)
(* Genooi above 0 has Totaal Opgedaag / Totaal Genooi * 100 rounded to two   *)
(* decimals, in the loaded view and in the filtered view.                    *)
RatioAsSpecified(r, row) ==
    LET genooi == ParseNum(row.TotaalGenooi)
        opgedaag == ParseNum(row.TotaalOpgedaag)
    IN  /\ r.Aanwesigheid.k = "num"
        /\ IF genooi = 0 THEN r.Aanwesigheid.h = 0
           ELSE 2 * Abs(r.Aanwesigheid.h * genooi - 10000 * opgedaag) <= genooi

C6_RatioDefinedForZeroInvited ==
    last.op = "render"
        => /\ Len(served.interv) = Len(csv)
           /\ \A i \in 1..Len(served.interv) :
                 RatioAsSpecified(served.interv[i], csv[served.interv[i].idx + 1])
           /\ \A i \in 1..Len(served.filt) :
                 RatioAsSpecified(served.filt[i], csv[served.filt[i].idx + 1])

(* C7: a deletion whose ordinal is not in the table shows an error and leaves *)
(* the table and the artifact files as they were.                             *)
C7_OutOfRangeDeleteChangesNothing ==
    [][(last'.op = "delete" /\ last'.idx >= Len(csv))
          => /\ ~last'.removed
             /\ "error" \in Levels(msgs')
             /\ csv' = csv
             /\ fs' = fs]_vars

C7_Witness ==
    /\ last.op = "delete"
    /\ ~last.removed
    /\ last.idx >= Len(csv)
    /\ msgs # <<>>

(* C8: after an append the table read back has one record for each record   *)
(* written, and the record just written comes back equal on every field:    *)
(* the date as a calendar date, an empty reference as an empty reference.    *)
SameField(read, written) ==
    \/ read = written
    \/ written = StrVal("") /\ read = NaN

SameRecord(r, entry) ==
    /\ r.Datum = Ts(DateOrdinal(entry.Datum), 0)
    /\ \A c \in DATA_COLUMNS : SameField(r[c], entry[c])

C8_RoundTrip ==
    (last.op = "submit" /\ last.ok)
        => LET df == LoadRaw(csv)
           IN  /\ Len(df) = Len(csv)
               /\ \E i \in 1..Len(df) :
                     /\ df[i].idx = Len(csv) - 1
                     /\ SameRecord(df[i], NewEntry(last.form, now))

(* C9: whatever the mirror does, an append leaves the table one row longer  *)
(* and a deletion one row shorter, and the handler reports how the mirror   *)
(* ended: a success message when it succeeded, an error or a warning when   *)
(* it did not.                                                              *)
C9_MirrorNeverBlocksAndIsReported ==
    [][((last'.op = "submit" /\ last'.ok) \/ (last'.op = "delete" /\ last'.removed))
          => /\ Len(csv') = (IF last'.op = "submit" THEN Len(csv) + 1 ELSE Len(csv) - 1)
             /\ IF last'.sync = "ok"
                THEN "success" \in Levels(msgs')
                ELSE Levels(msgs') \cap {"error", "warning"} # {}]_vars

(* C10: a sheet of n data rows is rendered as min(n, 50) rows, with the     *)
(* truncation notice exactly when n is above 50.                            *)
C10_SheetTruncation ==
    (last.op = "render" /\ served.report.ok)
        => \A i \in 1..Len(served.report.details) :
              LET d == served.report.details[i]
                  path == csv[d.idx + 1].Presensielys_Dokument
              IN  path \in DOMAIN fs
                    => /\ d.dokument.rows = Min(fs[path].rows, SHEET_MAX_ROWS)
                       /\ d.dokument.notice <=> (fs[path].rows > SHEET_MAX_ROWS)

(* C11: a row whose Datum does not parse is in the loaded frames and in the  *)
(* "Alles" view, is in no windowed view, and with such a row in the table    *)
(* the entries list of the deletion section and the report are still built. *)
Unparseable(c) == ~IsIsoText(c) \/ ~ValidDate(c.y, c.m, c.d)

C11_UndatedRowsKeptAndServed ==
    last.op = "render"
        => \A i \in {j \in 1..Len(csv) : Unparseable(csv[j].Datum)} :
              /\ (i - 1) \in ServedIdx(served.raw)
              /\ (i - 1) \in ServedIdx(served.interv)
              /\ (served.sel.filter_type = "Alles") <=> ((i - 1) \in ServedIdx(served.filt))
              /\ EntriesOk(served.raw)
              /\ served.report.ok

(* C12: a submission whose required fields are all valid and that attaches *)
(* neither a Presensielys photo nor a Presensielys document is stored as a *)
(* new row.                                                                *)
RequiredValid(form) ==
    /\ AllRequired(form)
    /\ form.totaal_opgedaag <= form.totaal_genooi
    /\ form.begintyd < form.eindtyd

C12_AttendanceUploadsOptional ==
    [][(/\ last'.op = "submit"
        /\ RequiredValid(last'.form)
        /\ ~last'.form.presensie_foto.given
        /\ ~last'.form.presensie_dokument.given)
          => /\ last'.ok
             /\ Len(csv') = Len(csv) + 1]_vars

(* C13: when a session rewrites the table, the table becomes the table that  *)
(* session read with its own row appended or its own row dropped, whatever   *)
(* another session wrote in between; so a write made in between is lost,     *)
(* while a write made on the table as it still is adds to it. The handler    *)
(* shows no error for the lost write: with the mirror succeeding it shows    *)
(* success only.                                                             *)
C13_LaterWriterWins ==
    [][\A s \in Sessions :
          (inflight[s].kind # "idle" /\ inflight'[s].kind = "idle")
              => LET f == inflight[s]
                 IN  /\ csv' = IF f.kind = "append"
                               THEN f.base \o <<WriteRow(NewEntry(f.form, f.clock))>>
                               ELSE SubSeq(f.base, 1, f.idx) \o SubSeq(f.base, f.idx + 2, Len(f.base))
                     /\ csv = f.base
                          => Len(csv') = (IF f.kind = "append" THEN Len(csv) + 1 ELSE Len(csv) - 1)
                     /\ last'.sync = "ok" => Levels(msgs') = {"success"}]_vars

C13_Witness ==
    /\ last.op \in {"submit", "delete"}
    /\ last.sync = "ok"
    /\ \E s \in Sessions : inflight[s].kind = "idle" /\ inflight[s].overwrote

(* C14: every artifact path a row of the table names is named by that row  *)
(* alone, and the file it names is on disk: no two submissions share a     *)
(* file, so removing the files of one row takes away nothing of another.   *)
ArtifactRefs(i) == {csv[i][a] : a \in ARTIFACT_COLUMNS} \ {""}

C14_ArtifactReferencesUnique ==
    \A i \in 1..Len(csv) :
        /\ ArtifactRefs(i) \subseteq DOMAIN fs
        /\ \A j \in 1..Len(csv) : ArtifactRefs(i) \cap ArtifactRefs(j) # {} => i = j

(* C16: a deletion is all or nothing. A deletion that shows "Fout met       *)
(* verwydering" leaves the table and the files as they were; a deletion    *)
(* that takes a row out of the table also removes the row's files, clears  *)
(* the three caches, so that what is shown next is loaded from the new     *)
(* table, and shows the success message.                                   *)
C16_DeleteAllOrNothing ==
    [][last'.op = "delete"
         => /\ Error("Fout met verwydering") \in Range(msgs') => (csv' = csv /\ fs' = fs)
            /\ csv' # csv
                 => /\ \A a \in ARTIFACT_COLUMNS : csv[last'.idx + 1][a] \notin DOMAIN fs'
                    /\ served'.raw = LoadRaw(csv')
                    /\ served'.interv = LoadInterventionData(csv')
                    /\ Success("Inskrywing suksesvol verwyder!") \in Range(msgs')]_vars

(* C15: every row of the table has at least one learner invited, no more   *)
(* learners attending than invited, a start before its end and a           *)
(* facilitator; and a submission that breaks one of these adds no row.     *)
QuarterHours == {15 * k : k \in 0..95}
TimeOfText(s) == CHOOSE t \in QuarterHours : TimeText(t) = s

RowValid(row) ==
    /\ ParseNum(row.TotaalGenooi) >= 1
    /\ ParseNum(row.TotaalOpgedaag) >= 0
    /\ ParseNum(row.TotaalOpgedaag) <= ParseNum(row.TotaalGenooi)
    /\ TimeOfText(row.Begintyd) < TimeOfText(row.Eindtyd)
    /\ row.Opvoeder # ""

FormValid(form) ==
    /\ form.totaal_genooi >= 1
    /\ form.totaal_opgedaag >= 0
    /\ form.totaal_opgedaag <= form.totaal_genooi
    /\ form.begintyd < form.eindtyd
    /\ form.opvoeder # ""

C15_RowsValid ==
    [][/\ \A i \in 1..Len(csv') : RowValid(csv'[i])
       /\ (last'.op = "submit" /\ ~FormValid(last'.form)) => csv' = csv]_vars

(* C17: the page number kept for the session is a page of the table: at    *)
(* least 0 and below max(total_pages, 1), total_pages being the number of  *)
(* rows divided by 10 and rounded up; so the slice of the log shown for a  *)
(* table that is not empty is not empty.                                   *)
C17_PageWithinRange ==
    /\ 0 <= page
    /\ page < (IF TotalPages(Len(csv)) > 1 THEN TotalPages(Len(csv)) ELSE 1)
    /\ served.interv # <<>> => PageSlice(served.interv, page) # <<>>

====
